---- MODULE Spec2Model ----
(***************************************************************************)
(* Model of runtime/ops/process.rs: the spawn / wait / kill operations on  *)
(* child processes, the permission gate of create_command, the wiring of   *)
(* the control channel and the auxiliary pipes, and the lifecycle of the   *)
(* ChildResource entries of the resource table.                            *)
(***************************************************************************)
EXTENDS Integers, Sequences, FiniteSets, TLC

VARIABLES
    resource_table, \* OpState.resource_table: rid -> resource
    next_rid,       \* the next resource id the table hands out
    children,       \* the ChildResource objects, by the rid they were added under
    fds,            \* raw pipe descriptors open in the parent
    next_fd,        \* the number the OS gives the next descriptor it opens
    next_pid,       \* the pid the OS gives the next process
    close_count,    \* rid -> number of Resource::close calls on a child entry
    last,           \* what the last operation did and returned
    calls,          \* the number of requests SpecSpawn has put to op_spawn_child
    gate            \* the last request put to the permission gate alone

vars == <<resource_table, next_rid, children, fds, next_fd, next_pid, close_count, last, calls, gate>>

--------------------------------------------------------------------------
(* Bounds of the model. *)

\* children spawned in one behaviour of Spec
MaxChildren == 2
\* calls of op_spawn_child in one behaviour of SpecSpawn
MaxSpawnCalls == 2
\* length of SpawnArgs.extra_stdio
MaxExtra == 2
\* length of SpawnArgs.env put to the gate
MaxEnvLen == 2
\* the greatest exit code of a raw status
MaxExitCode == 255
\* the greatest signal number of a raw status
MaxSignal == 32

--------------------------------------------------------------------------
(* Strings are sequences of characters, so that trim and starts_with are   *)
(* computed and not assumed.                                               *)

WhiteSpace == {" ", "\t"}

RECURSIVE TrimStart(_)
TrimStart(s) == IF s # <<>> /\ Head(s) \in WhiteSpace THEN TrimStart(Tail(s)) ELSE s

RECURSIVE TrimEnd(_)
TrimEnd(s) == IF s # <<>> /\ s[Len(s)] \in WhiteSpace THEN TrimEnd(SubSeq(s, 1, Len(s) - 1)) ELSE s

\* str::trim
Trim(s) == TrimEnd(TrimStart(s))

\* str::starts_with
StartsWith(s, p) == Len(s) >= Len(p) /\ SubSeq(s, 1, Len(p)) = p

LD_ == <<"L", "D", "_">>
DYLD_ == <<"D", "Y", "L", "D", "_">>

\* Option<T>: None is the empty sequence, Some(x) is <<x>>
None == <<>>
Some(x) == <<x>>

\* Iterator::find: the first of the indexes that satisfy the predicate, 0
\* when none does
FirstIndex(S) == IF S = {} THEN 0 ELSE CHOOSE i \in S : \A j \in S : i <= j

--------------------------------------------------------------------------
(* The permission gate: create_command, lines 231-285.                     *)

requires_allow_all(key) == LET k == Trim(key) IN StartsWith(k, LD_) \/ StartsWith(k, DYLD_)

args_has_empty_env_value(env, key_name) == LET i == FirstIndex({n \in 1..Len(env) : env[n][1] = key_name}) IN IF i = 0 THEN FALSE ELSE Trim(env[i][2]) = <<>>

\* a mutant of get_requires_allow_all_env_var: the declared overrides are
\* scanned only when the environment is not cleared
get_requires_allow_all_env_var_ClearSkipsAll(args, inherited) ==
    LET dangerous(kv) == requires_allow_all(kv[1]) /\ Trim(kv[2]) # <<>>
        i == FirstIndex({n \in 1..Len(args.env) : dangerous(args.env[n])})
        pending(kv) == dangerous(kv) /\ ~args_has_empty_env_value(args.env, kv[1])
        j == FirstIndex({n \in 1..Len(inherited) : pending(inherited[n])})
    IN  IF args.clear_env THEN None
        ELSE IF i # 0 THEN Some(args.env[i][1])
        ELSE IF j # 0 THEN Some(inherited[j][1])
        ELSE None

\* a mutant of get_requires_allow_all_env_var: the inherited environment is
\* not scanned
get_requires_allow_all_env_var_DeclaredOnly(args, inherited) ==
    LET dangerous(kv) == requires_allow_all(kv[1]) /\ Trim(kv[2]) # <<>>
        i == FirstIndex({n \in 1..Len(args.env) : dangerous(args.env[n])})
    IN  IF i # 0 THEN Some(args.env[i][1]) ELSE None

\* get_requires_allow_all_env_var: inherited is std::env::vars()
get_requires_allow_all_env_var(args, inherited) ==
    LET dangerous(kv) == requires_allow_all(kv[1]) /\ Trim(kv[2]) # <<>>
        i == FirstIndex({n \in 1..Len(args.env) : dangerous(args.env[n])})
        pending(kv) == dangerous(kv) /\ ~args_has_empty_env_value(args.env, kv[1])
        j == FirstIndex({n \in 1..Len(inherited) : pending(inherited[n])})
    IN  IF i # 0 THEN Some(args.env[i][1])
        ELSE IF ~args.clear_env /\ j # 0 THEN Some(inherited[j][1])
        ELSE None

\* The permission state: "none" grants nothing, "run" grants running the
\* program of the request, "all" grants unrestricted run.
PermStates == {"none", "run", "all"}

\* PermissionsContainer::check_run(cmd)
check_run(perm) == perm \in {"run", "all"}

\* PermissionsContainer::check_run_all
check_run_all(perm) == perm = "all"

\* The block at the head of create_command: the result and the key the
\* error names.
PermissionBlock(args, perm, inherited) ==
    LET name == get_requires_allow_all_env_var(args, inherited)
    IN  IF ~check_run(perm) THEN [result |-> "PermissionDenied", what |-> "run", key |-> None]
        ELSE IF ~check_run_all(perm) /\ name # None THEN [result |-> "PermissionDenied", what |-> "env", key |-> name]
        ELSE [result |-> "Ok", what |-> "", key |-> None]

\* The keys of a sequence of (key, value) pairs, and the value of the last
\* pair of a key.
KeysOf(env) == {env[i][1] : i \in 1..Len(env)}
LastValue(env, key) == env[CHOOSE i \in 1..Len(env) : env[i][1] = key /\ \A j \in (i + 1)..Len(env) : env[j][1] # key][2]

\* a mutant of command_env: a key of the inherited environment keeps its
\* inherited value
command_env_InheritedWins(args, inherited) ==
    [key \in KeysOf(IF args.clear_env THEN <<>> ELSE inherited) \cup KeysOf(args.env) |->
        IF ~args.clear_env /\ key \in KeysOf(inherited) THEN LastValue(inherited, key) ELSE LastValue(args.env, key)]

\* Lines 305-308, command.env_clear() and command.envs(args.env): the
\* environment the child gets, from key to value. The inherited environment
\* is kept unless cleared, and the overrides are set in order, so that the
\* last one of a key stays.
command_env(args, inherited) ==
    [key \in KeysOf(IF args.clear_env THEN <<>> ELSE inherited) \cup KeysOf(args.env) |->
        IF key \in KeysOf(args.env) THEN LastValue(args.env, key) ELSE LastValue(inherited, key)]

--------------------------------------------------------------------------
(* The resource table and the request record.                              *)

\* StdioOrRid
StdioMode(m) == [tag |-> "Stdio", stdio |-> m, rid |-> 0]
StdioRid(r) == [tag |-> "Rid", stdio |-> "", rid |-> r]

\* StdioOrRid::is_ipc
is_ipc(s) == s.tag = "Stdio" /\ s.stdio = "ipc_for_internal_use"

\* The resource table of a fresh runtime holds the three standard streams
\* as file resources 0, 1 and 2.
InitialTable == [r \in 0..2 |-> [kind |-> "file", fd |-> 0]]

\* ResourceTable::add: the entry is stored under the next id
TableAdd(table, rid, res) == [r \in DOMAIN table \cup {rid} |-> IF r = rid THEN res ELSE table[r]]

\* ResourceTable::take_any: the entry is removed
TableRemove(table, rid) == [r \in DOMAIN table \ {rid} |-> table[r]]

\* ResourceTable::get::<ChildResource>(rid) is Ok
IsChild(table, rid) == rid \in DOMAIN table /\ table[rid].kind = "child"

\* StdioOrRid::as_stdio and Stdio::as_stdio: "Ok", or the error
as_stdio(table, s) ==
    IF s.tag = "Stdio"
    THEN IF s.stdio \in {"inherit", "piped", "null"} THEN "Ok" ELSE "Unreachable"
    ELSE IF s.rid \in DOMAIN table /\ table[s.rid].kind = "file" THEN "Ok" ELSE "BadResource"

\* The three standard streams of create_command, lines 319-332: stdin
\* unless it is the control channel, then stdout and stderr, an inherited
\* one through resource 1 or 2. The first error is returned.
resolve_stdio(table, args) ==
    LET in == IF is_ipc(args.stdin) THEN "Ok" ELSE as_stdio(table, args.stdin)
        out == IF args.stdout = StdioMode("inherit") THEN as_stdio(table, StdioRid(1)) ELSE as_stdio(table, args.stdout)
        err == IF args.stderr = StdioMode("inherit") THEN as_stdio(table, StdioRid(2)) ELSE as_stdio(table, args.stderr)
    IN  IF in # "Ok" THEN in ELSE IF out # "Ok" THEN out ELSE err

\* SpawnArgs, the fields the model reads; cmd and cwd are set by Launch
Args(clear_env, env, ipc, in, out, err, extra) ==
    [cmd |-> "deno", cwd |-> None, clear_env |-> clear_env, env |-> env, ipc |-> ipc,
     stdin |-> in, stdout |-> out, stderr |-> err, extra_stdio |-> extra]

\* SpawnArgs with the program and the working directory of the request
Launch(args, cmd, cwd) == [args EXCEPT !.cmd = cmd, !.cwd = cwd]

NoArgs == Args(FALSE, <<>>, None, StdioMode("inherit"), StdioMode("inherit"), StdioMode("inherit"), <<>>)

\* The message of a spawn error: its text, the program and the working
\* directory it names.
NoMessage == [text |-> "", program |-> "", cwd |-> None]

\* The record every operation leaves in last: the request, the result, what
\* was returned to the caller, and what the operation did on the way.
NoOp ==
    [op |-> "none", rid |-> 0, result |-> "", what |-> "", key |-> None,
     signal |-> "", pid |-> 0, signo |-> 0,
     opened |-> {}, added |-> {}, to_close |-> <<>>, closed |-> <<>>,
     create_ok |-> FALSE, ipc_rid |-> None, extra_pipe_rids |-> <<>>, closes |-> 0,
     args |-> NoArgs, fds_to_dup |-> <<>>, channel_env |-> None, stdin_configured |-> FALSE,
     child_fds |-> <<>>, message |-> NoMessage, raw |-> None, status |-> None,
     stdout |-> None, stderr |-> None, target |-> 0]

NoGate == [perm |-> "none", clear_env |-> FALSE, env |-> <<>>, inherited |-> <<>>, result |-> "", what |-> "", key |-> None, child_env |-> <<>>]

--------------------------------------------------------------------------
(* create_command, the Unix block (lines 337-400): the control channel and *)
(* the auxiliary pipes. The state threaded through it is a record: the     *)
(* table and the descriptors as they are so far, the three local vectors,  *)
(* and what the OS was asked so far.                                       *)

\* The state create_command starts the block with.
WireStart(table, nrid, open, nfd) ==
    [table |-> table, next_rid |-> nrid, fds |-> open, next_fd |-> nfd,
     fds_to_dup |-> <<>>, fds_to_close |-> <<>>, ipc_rid |-> None,
     extra_pipe_rids |-> <<>>, channel_env |-> None,
     pairs |-> 0, wraps |-> 0, err |-> ""]

\* deno_io::bi_pipe_pair_raw, the call number st.pairs + 1: two new
\* descriptors, or nothing and an error when the OS refuses (plan.pair
\* names the call that fails, 0 for none).
PairFails(st, plan) == plan.pair = st.pairs + 1

\* Wrapping the parent end into a resource (IpcJsonStreamResource::new,
\* BiPipeResource::from_raw_handle) fails at the call plan.wrap names.
WrapFails(st, plan) == plan.wrap = st.wraps + 1

\* The state after a pipe pair is opened and its child end is pushed on
\* fds_to_dup and fds_to_close (lines 344-346 and 369-371).
PushPair(st, dst) ==
    [st EXCEPT !.fds = @ \cup {st.next_fd, st.next_fd + 1},
               !.next_fd = @ + 2,
               !.pairs = @ + 1,
               !.fds_to_dup = Append(@, <<st.next_fd + 1, dst>>),
               !.fds_to_close = Append(@, st.next_fd + 1)]

\* A failed wrap: the constructor owns the parent end by then and may or
\* may not have closed it (plan.wrap_closes).
WrapFailed(st, fd1, plan) == [st EXCEPT !.wraps = @ + 1, !.fds = IF plan.wrap_closes THEN @ \ {fd1} ELSE @]

\* resource_table.add of the wrapped parent end
WrapAdd(st, fd1, kind) == [st EXCEPT !.wraps = @ + 1, !.table = TableAdd(@, st.next_rid, [kind |-> kind, fd |-> fd1]), !.next_rid = @ + 1]

\* Lines 348-357: the parent end of the control channel is wrapped and
\* added, and NODE_CHANNEL_FD is set; the ? of line 354 returns the error
\* of the wrap.
IpcWrap(p, fd1, ipc, plan) ==
    IF WrapFails(p, plan) THEN [WrapFailed(p, fd1, plan) EXCEPT !.err = "PipeError"]
    ELSE [WrapAdd(p, fd1, "ipc") EXCEPT !.channel_env = ipc, !.ipc_rid = Some(p.next_rid)]

\* Lines 342-359: the control channel.
IpcStep(st, ipc, plan) ==
    IF ipc = None \/ ipc[1] < 0 THEN st
    ELSE IF PairFails(st, plan) THEN [st EXCEPT !.pairs = @ + 1, !.err = "PipeError"]
    ELSE IpcWrap(PushPair(st, ipc[1]), st.next_fd, ipc, plan)

\* Lines 372-382: the parent end of an auxiliary pipe is wrapped and added;
\* a failed wrap is logged and the loop goes on.
ExtraWrap(p, fd1, plan) ==
    IF WrapFails(p, plan) THEN [WrapFailed(p, fd1, plan) EXCEPT !.extra_pipe_rids = Append(@, None)]
    ELSE [WrapAdd(p, fd1, "bipipe") EXCEPT !.extra_pipe_rids = Append(@, Some(p.next_rid))]

\* a mutant of ExtraTurn: a mode that is not Piped pushes no entry
ExtraTurn_SkipsNonPiped(st, i, stdio, plan) ==
    IF stdio # "piped" THEN st
    ELSE IF PairFails(st, plan) THEN [st EXCEPT !.pairs = @ + 1, !.err = "PipeError"]
    ELSE ExtraWrap(PushPair(st, (i - 1) + 3), st.next_fd, plan)

\* Lines 361-386, one turn of the loop: index i of extra_stdio (from 1
\* here, from 0 in the code) is descriptor i + 2 of the child.
ExtraTurn(st, i, stdio, plan) ==
    IF stdio # "piped" THEN [st EXCEPT !.extra_pipe_rids = Append(@, None)]
    ELSE IF PairFails(st, plan) THEN [st EXCEPT !.pairs = @ + 1, !.err = "PipeError"]
    ELSE ExtraWrap(PushPair(st, (i - 1) + 3), st.next_fd, plan)

\* The loop over extra_stdio: the ? of line 369 leaves it at the first
\* failed pair.
RECURSIVE ExtraLoop(_, _, _, _)
ExtraLoop(st, i, extra, plan) ==
    IF i > Len(extra) \/ st.err # "" THEN st
    ELSE ExtraLoop(ExtraTurn(st, i, extra[i], plan), i + 1, extra, plan)

\* a mutant of EffectiveIpc: the slot of the request is kept
EffectiveIpc_KeepsSlot(args) == args.ipc

\* Lines 319-320: a stdin that is the control channel puts it on slot 0.
EffectiveIpc(args) == IF is_ipc(args.stdin) THEN Some(0) ELSE args.ipc

\* An Err of create_command: the state as it is left, and which part
\* refused (what) with the key a permission error names.
Refused(st, err, what, key) == [st EXCEPT !.err = err] @@ [what |-> what, key |-> key]

\* The end of the Unix block: Ok((command, ipc_rid, extra_pipe_rids,
\* fds_to_close)), or the error of a pipe.
Wired(done) == done @@ [what |-> IF done.err = "" THEN "" ELSE "wire", key |-> None]

\* a mutant of CreateFrom: the control channel is opened before the
\* permissions and the standard streams are checked
CreateFrom_WiresFirst(gate_, stdio, start, args, plan) ==
    IF gate_.result # "Ok" THEN Refused(IpcStep(start, EffectiveIpc(args), plan), gate_.result, gate_.what, gate_.key)
    ELSE IF stdio # "Ok" THEN Refused(IpcStep(start, EffectiveIpc(args), plan), stdio, "stdio", None)
    ELSE Wired(ExtraLoop(IpcStep(start, EffectiveIpc(args), plan), 1, args.extra_stdio, plan))

\* create_command in the order of its parts: the permission block (lines
\* 271-285), the standard streams (lines 319-332), the wiring (lines
\* 337-400). gate_ and stdio are the results of the first two, start the
\* state the wiring starts with.
CreateFrom(gate_, stdio, start, args, plan) ==
    IF gate_.result # "Ok" THEN Refused(start, gate_.result, gate_.what, gate_.key)
    ELSE IF stdio # "Ok" THEN Refused(start, stdio, "stdio", None)
    ELSE Wired(ExtraLoop(IpcStep(start, EffectiveIpc(args), plan), 1, args.extra_stdio, plan))

\* create_command on Unix. The result is the wiring state with err = "" for
\* Ok, and the error otherwise.
create_command(table, nrid, open, nfd, args, perm, inherited, plan) ==
    CreateFrom(PermissionBlock(args, perm, inherited), resolve_stdio(table, args), WireStart(table, nrid, open, nfd), args, plan)

--------------------------------------------------------------------------
(* impl TryFrom<ExitStatus> for ChildStatus, lines 176-209. A raw status   *)
(* is the record of ExitStatus::code() and ExitStatus::signal().           *)

\* The names of the signals 1..31 of Linux, by number.
SignalTable ==
    <<"SIGHUP", "SIGINT", "SIGQUIT", "SIGILL", "SIGTRAP", "SIGABRT", "SIGBUS", "SIGFPE",
      "SIGKILL", "SIGUSR1", "SIGSEGV", "SIGUSR2", "SIGPIPE", "SIGALRM", "SIGTERM", "SIGSTKFLT",
      "SIGCHLD", "SIGCONT", "SIGSTOP", "SIGTSTP", "SIGTTIN", "SIGTTOU", "SIGURG", "SIGXCPU",
      "SIGXFSZ", "SIGVTALRM", "SIGPROF", "SIGWINCH", "SIGIO", "SIGPWR", "SIGSYS">>

\* ops::signal::signal_int_to_str: the name, None for the error of a number
\* the table does not have
signal_int_to_str(signal) == IF signal \in 1..Len(SignalTable) THEN Some(SignalTable[signal]) ELSE None

\* The Result of try_from: Ok with the ChildStatus, or the error.
Status(result, success, code, signal) == [result |-> result, success |-> success, code |-> code, signal |-> signal]

\* a mutant of Signalled: the code is the signal number
Signalled_RawNumber(signal) ==
    IF signal_int_to_str(signal) = None THEN Status("InvalidSignal", FALSE, 0, None)
    ELSE Status("Ok", FALSE, signal, signal_int_to_str(signal))

\* Lines 186-196: the status of a process a signal terminated; the ? of
\* line 192 returns the error of signal_int_to_str
Signalled(signal) ==
    IF signal_int_to_str(signal) = None THEN Status("InvalidSignal", FALSE, 0, None)
    ELSE Status("Ok", FALSE, 128 + signal, signal_int_to_str(signal))

\* a mutant of Exited: every exit code is a success
Exited_AlwaysSuccess(code) == IF code = None THEN Status("Panic", FALSE, 0, None) ELSE Status("Ok", TRUE, code[1], None)

\* Lines 197-205: the status of a process that exited; code.expect panics
\* when there is no code
Exited(code) == IF code = None THEN Status("Panic", FALSE, 0, None) ELSE Status("Ok", code[1] = 0, code[1], None)

\* ChildStatus::try_from(status)
try_from(status) == IF status.signal # None THEN Signalled(status.signal[1]) ELSE Exited(status.code)

\* The raw statuses wait() returns on Unix: an exit code of eight bits, or
\* the signal that terminated the process.
RawStatuses ==
    {[code |-> Some(c), signal |-> None] : c \in 0..MaxExitCode} \cup {[code |-> None, signal |-> Some(n)] : n \in 1..MaxSignal}

--------------------------------------------------------------------------
(* spawn_child and op_spawn_child.                                         *)

Range(seq) == {seq[i] : i \in 1..Len(seq)}

\* child.stdin.take() and the like are Some exactly for a stream the command
\* was given Stdio::piped() for.
IsPiped(s) == s = StdioMode("piped")

\* The rids spawn_child adds (lines 510-527), in the order it adds them:
\* stdin, stdout, stderr where piped, then the child itself.
StreamRids(nrid, args) ==
    LET in == IF IsPiped(args.stdin) THEN 1 ELSE 0
        out == IF IsPiped(args.stdout) THEN 1 ELSE 0
        err == IF IsPiped(args.stderr) THEN 1 ELSE 0
    IN  [stdin_rid |-> IF in = 1 THEN Some(nrid) ELSE None,
         stdout_rid |-> IF out = 1 THEN Some(nrid + in) ELSE None,
         stderr_rid |-> IF err = 1 THEN Some(nrid + in + out) ELSE None,
         rid |-> nrid + in + out + err]

\* The table after spawn_child has added the stream resources and the
\* ChildResource.
SpawnTable(table, nrid, args) ==
    LET r == StreamRids(nrid, args)
        t1 == IF r.stdin_rid # None THEN TableAdd(table, r.stdin_rid[1], [kind |-> "childStdin", fd |-> 0]) ELSE table
        t2 == IF r.stdout_rid # None THEN TableAdd(t1, r.stdout_rid[1], [kind |-> "childStdout", fd |-> 0]) ELSE t1
        t3 == IF r.stderr_rid # None THEN TableAdd(t2, r.stderr_rid[1], [kind |-> "childStderr", fd |-> 0]) ELSE t2
    IN  TableAdd(t3, r.rid, [kind |-> "child", fd |-> 0])

\* a mutant of close_handles: the error of spawn_child is returned with ?
\* before the loop
close_handles_OnlyOnSuccess(os, handles_to_close) == IF os = "Ok" THEN handles_to_close ELSE <<>>

\* op_spawn_child, lines 567-569: the calls of close_raw_handle, in order
close_handles(os, handles_to_close) == handles_to_close

\* The descriptors of the forked child when the pre-exec hook starts: the
\* three standard streams, already set up, and every descriptor open in the
\* parent. A descriptor is mapped to the open file it refers to, named by
\* the number the file has in the parent.
ForkedFds(open) == [fd \in (0..2) \cup open |-> fd]

\* libc::dup2(src, dst): dst is made to refer to the file of src; nothing
\* is done when src is not open (EBADF) or when src is dst
dup2(child, src, dst) ==
    IF src \notin DOMAIN child \/ src = dst THEN child
    ELSE [fd \in DOMAIN child \cup {dst} |-> IF fd = dst THEN child[src] ELSE child[fd]]

\* libc::close(fd)
close(child, fd) == [x \in DOMAIN child \ {fd} |-> child[x]]

\* The closure given to pre_exec, lines 388-394: the pairs of fds_to_dup
\* from pair i on, each by dup2(src, dst) and then close(src).
RECURSIVE pre_exec(_, _, _)
pre_exec(child, fds_to_dup, i) ==
    IF i > Len(fds_to_dup) THEN child
    ELSE IF fds_to_dup[i][1] >= 0 /\ fds_to_dup[i][2] >= 0
         THEN pre_exec(close(dup2(child, fds_to_dup[i][1], fds_to_dup[i][2]), fds_to_dup[i][1]), fds_to_dup, i + 1)
         ELSE pre_exec(child, fds_to_dup, i + 1)

\* The file system the working directory of a request is looked up in.
Paths == {"/nowhere", "/etc/hosts", "/tmp"}
FileSystem == [path \in Paths |-> IF path = "/tmp" THEN "dir" ELSE IF path = "/etc/hosts" THEN "file" ELSE "absent"]

\* Path::exists and Path::is_dir
exists(path) == FileSystem[path] # "absent"
is_dir(path) == FileSystem[path] = "dir"

\* spawn_child, lines 463-505: the error returned for a failed
\* Command::spawn
spawn_error(args) ==
    IF args.cwd # None /\ ~exists(args.cwd[1]) THEN [text |-> "No such cwd", program |-> args.cmd, cwd |-> args.cwd]
    ELSE IF args.cwd # None /\ ~is_dir(args.cwd[1]) THEN [text |-> "cwd is not a directory", program |-> args.cmd, cwd |-> args.cwd]
    ELSE [text |-> "Failed to spawn", program |-> args.cmd, cwd |-> None]

\* The ChildResource(RefCell<Child>, pid) and what the model keeps with it:
\* borrowed is the RefCell's borrow flag, waiting the number of op_spawn_wait
\* futures suspended in wait().await on it, proc the state of the OS process,
\* waited whether a wait on it has completed, and the stream rids are those
\* of the Child record returned to the caller.
NewChild(pid, r) ==
    [pid |-> pid, borrowed |-> FALSE, waiting |-> 0, proc |-> "running", waited |-> FALSE,
     stdin_rid |-> r.stdin_rid, stdout_rid |-> r.stdout_rid, stderr_rid |-> r.stderr_rid]

\* op_spawn_child after create_command has returned cc: its error is
\* returned by the ? of line 565; otherwise spawn_child runs (os is the
\* outcome of Command::spawn), then the handles are closed.
SpawnWith(cc, args, os) ==
    LET r == StreamRids(cc.next_rid, args)
        closed == close_handles(os, cc.fds_to_close)
        base == [NoOp EXCEPT !.op = "spawn_child", !.args = args, !.key = cc.key, !.what = cc.what,
                             !.opened = next_fd..(cc.next_fd - 1)]
    IN  IF cc.err # ""
        THEN /\ resource_table' = cc.table
             /\ next_rid' = cc.next_rid
             /\ fds' = cc.fds
             /\ next_fd' = cc.next_fd
             /\ last' = [base EXCEPT !.result = cc.err, !.added = next_rid..(cc.next_rid - 1)]
             /\ UNCHANGED <<children, next_pid, close_count, gate>>
        ELSE /\ fds' = cc.fds \ Range(closed)
             /\ next_fd' = cc.next_fd
             /\ IF os = "Ok"
                THEN /\ resource_table' = SpawnTable(cc.table, cc.next_rid, args)
                     /\ next_rid' = r.rid + 1
                     /\ children' = [c \in DOMAIN children \cup {r.rid} |-> IF c = r.rid THEN NewChild(next_pid, r) ELSE children[c]]
                     /\ close_count' = [c \in DOMAIN children \cup {r.rid} |-> IF c = r.rid THEN 0 ELSE close_count[c]]
                     /\ next_pid' = next_pid + 1
                     /\ last' = [base EXCEPT !.result = "Ok", !.rid = r.rid, !.pid = next_pid, !.create_ok = TRUE,
                                             !.added = next_rid..r.rid,
                                             !.ipc_rid = cc.ipc_rid, !.extra_pipe_rids = cc.extra_pipe_rids,
                                             !.fds_to_dup = cc.fds_to_dup, !.channel_env = cc.channel_env,
                                             !.stdin_configured = ~is_ipc(args.stdin),
                                             !.child_fds = pre_exec(ForkedFds(cc.fds), cc.fds_to_dup, 1),
                                             !.to_close = cc.fds_to_close, !.closed = closed]
                ELSE /\ resource_table' = cc.table
                     /\ next_rid' = cc.next_rid
                     /\ last' = [base EXCEPT !.result = "SpawnFailed", !.create_ok = TRUE,
                                             !.message = spawn_error(args),
                                             !.added = next_rid..(cc.next_rid - 1),
                                             !.to_close = cc.fds_to_close, !.closed = closed]
                     /\ UNCHANGED <<children, next_pid, close_count>>
             /\ UNCHANGED gate

\* op_spawn_child(args): perm is the permission state, inherited the
\* environment of the process, plan the failures of the OS in the wiring, os
\* the outcome of Command::spawn.
op_spawn_child(args, perm, inherited, plan, os) ==
    SpawnWith(create_command(resource_table, next_rid, fds, next_fd, args, perm, inherited, plan), args, os)

--------------------------------------------------------------------------
(* op_spawn_sync.                                                          *)

\* a mutant of SpawnOutput: the flag of stdout decides both buffers
SpawnOutput_OneFlag(stdout, stderr) ==
    [stdout |-> IF stdout THEN Some("output.stdout") ELSE None, stderr |-> IF stdout THEN Some("output.stderr") ELSE None]

\* Lines 608-620: the buffers of SpawnOutput; stdout and stderr are the
\* flags of lines 597-598
SpawnOutput(stdout, stderr) ==
    [stdout |-> IF stdout THEN Some("output.stdout") ELSE None, stderr |-> IF stderr THEN Some("output.stderr") ELSE None]

\* Lines 601-606: the error of a failed command.output()
output_error(args) == [text |-> "Failed to spawn", program |-> args.cmd, cwd |-> None]

\* op_spawn_sync after create_command has returned cc: its error is
\* returned by the ? of line 600; otherwise command.output() runs the
\* process to its end (os is the outcome of the spawn, raw the status of the
\* process), and the three other members of what create_command returned
\* are dropped as they are.
SyncWith(cc, args, os, raw) ==
    LET base == [NoOp EXCEPT !.op = "spawn_sync", !.args = args, !.key = cc.key, !.what = cc.what,
                             !.opened = next_fd..(cc.next_fd - 1), !.added = next_rid..(cc.next_rid - 1)]
        out == SpawnOutput(args.stdout = StdioMode("piped"), args.stderr = StdioMode("piped"))
    IN  /\ resource_table' = cc.table
        /\ next_rid' = cc.next_rid
        /\ fds' = cc.fds
        /\ next_fd' = cc.next_fd
        /\ UNCHANGED <<children, close_count, gate>>
        /\ IF cc.err # ""
           THEN /\ last' = [base EXCEPT !.result = cc.err]
                /\ next_pid' = next_pid
           ELSE IF os # "Ok"
           THEN /\ last' = [base EXCEPT !.result = "SpawnFailed", !.create_ok = TRUE, !.to_close = cc.fds_to_close,
                                        !.message = output_error(args)]
                /\ next_pid' = next_pid
           ELSE IF try_from(raw).result # "Ok"
           THEN /\ last' = [base EXCEPT !.result = try_from(raw).result, !.create_ok = TRUE, !.to_close = cc.fds_to_close,
                                        !.pid = next_pid, !.raw = Some(raw)]
                /\ next_pid' = next_pid + 1
           ELSE /\ last' = [base EXCEPT !.result = "Ok", !.create_ok = TRUE, !.to_close = cc.fds_to_close,
                                        !.pid = next_pid, !.raw = Some(raw), !.status = Some(try_from(raw)),
                                        !.stdout = out.stdout, !.stderr = out.stderr]
                /\ next_pid' = next_pid + 1

\* op_spawn_sync(args)
op_spawn_sync(args, perm, inherited, plan, os, raw) ==
    SyncWith(create_command(resource_table, next_rid, fds, next_fd, args, perm, inherited, plan), args, os, raw)

--------------------------------------------------------------------------
(* op_spawn_wait, op_spawn_kill, and what happens to a child besides.      *)

\* a mutant of DropChild: the Child is spawned without kill_on_drop
DropChild_NoKill(ch) == IF ch.proc = "exited" THEN [ch EXCEPT !.proc = "reaped"] ELSE ch

\* Dropping the last Rc of a ChildResource drops the tokio Child, spawned
\* with kill_on_drop(true) (line 459): a running process is killed, an
\* exited one is reaped by the runtime.
DropChild(ch) ==
    IF ch.proc = "running" THEN [ch EXCEPT !.proc = "killed"]
    ELSE IF ch.proc = "exited" THEN [ch EXCEPT !.proc = "reaped"]
    ELSE ch

\* The Rc of the resource is held by the table entry and by every
\* op_spawn_wait future on it.
Unreferenced(table, rid, ch) == rid \notin DOMAIN table /\ ch.waiting = 0

\* a mutant of wait_begin: the RefCell is borrowed without the check
wait_begin_Unchecked(rid) == IF ~IsChild(resource_table, rid) THEN "BadResource" ELSE "Pending"

\* op_spawn_wait up to the await, lines 580-584: get::<ChildResource>(rid)?,
\* then try_borrow_mut()?, then the future is suspended in wait()
wait_begin(rid) ==
    IF ~IsChild(resource_table, rid) THEN "BadResource"
    ELSE IF children[rid].borrowed THEN "Busy"
    ELSE "Pending"

op_spawn_wait_begin(rid) ==
    LET res == wait_begin(rid)
    IN  /\ last' = [NoOp EXCEPT !.op = "wait", !.rid = rid, !.result = res]
        /\ UNCHANGED calls
        /\ children' = IF res = "Pending" THEN [children EXCEPT ![rid].borrowed = TRUE, ![rid].waiting = @ + 1] ELSE children
        /\ UNCHANGED <<resource_table, next_rid, fds, next_fd, next_pid, close_count, calls, gate>>

\* a mutant of wait_finish: the entry is left in the table
wait_finish_NoTake(table, rid) == [table |-> table, closes |-> 0]

\* a mutant of wait_finish: the resource held by the future is closed
\* whether or not the table still had the entry
wait_finish_CloseAlways(table, rid) == [table |-> TableRemove(table, rid), closes |-> 1]

\* a mutant of wait_finish: the stream resources of the child are taken
\* and closed with it
wait_finish_CloseStreams(table, rid) ==
    LET ch == children[rid]
        streams == Range(ch.stdin_rid) \cup Range(ch.stdout_rid) \cup Range(ch.stderr_rid)
    IN  [table |-> [r \in DOMAIN table \ ({rid} \cup streams) |-> table[r]], closes |-> IF rid \in DOMAIN table THEN 1 ELSE 0]

\* op_spawn_wait after the await, lines 585-587: take_any(rid), and close
\* on what it returned
wait_finish(table, rid) ==
    IF rid \in DOMAIN table THEN [table |-> TableRemove(table, rid), closes |-> 1]
    ELSE [table |-> table, closes |-> 0]

\* The wait of a suspended op_spawn_wait returns the exit status: the
\* process is reaped, the borrow ends, and the entry is taken.
op_spawn_wait_complete(rid) ==
    /\ rid \in DOMAIN children
    /\ children[rid].waiting > 0
    /\ children[rid].proc = "exited"
    /\ LET fin == wait_finish(resource_table, rid)
           ch == [children[rid] EXCEPT !.waiting = @ - 1, !.borrowed = FALSE, !.proc = "reaped", !.waited = TRUE]
       IN  /\ resource_table' = fin.table
           /\ close_count' = [close_count EXCEPT ![rid] = @ + fin.closes]
           /\ children' = [children EXCEPT ![rid] = ch]
           /\ last' = [NoOp EXCEPT !.op = "wait_done", !.rid = rid, !.result = "Ok", !.closes = fin.closes]
    /\ UNCHANGED <<next_rid, fds, next_fd, next_pid, calls, gate>>

\* a mutant of op_spawn_wait_error: the entry is taken and closed before
\* the error of the wait is returned
op_spawn_wait_error_Takes(rid) ==
    /\ rid \in DOMAIN children
    /\ children[rid].waiting > 0
    /\ children[rid].proc \in {"running", "exited"}
    /\ resource_table' = wait_finish(resource_table, rid).table
    /\ close_count' = [close_count EXCEPT ![rid] = @ + wait_finish(resource_table, rid).closes]
    /\ children' = [children EXCEPT ![rid] = DropChild([children[rid] EXCEPT !.waiting = @ - 1, !.borrowed = FALSE])]
    /\ last' = [NoOp EXCEPT !.op = "wait_done", !.rid = rid, !.result = "IoError"]
    /\ UNCHANGED <<next_rid, fds, next_fd, next_pid, calls, gate>>

\* The wait of a suspended op_spawn_wait returns an io error: the ? of line
\* 584 returns it, the borrow ends, and the entry is not touched.
op_spawn_wait_error(rid) ==
    /\ rid \in DOMAIN children
    /\ children[rid].waiting > 0
    /\ children[rid].proc \in {"running", "exited"}
    /\ LET ch == [children[rid] EXCEPT !.waiting = @ - 1, !.borrowed = FALSE]
       IN  children' = [children EXCEPT ![rid] = IF Unreferenced(resource_table, rid, ch) THEN DropChild(ch) ELSE ch]
    /\ last' = [NoOp EXCEPT !.op = "wait_done", !.rid = rid, !.result = "IoError"]
    /\ UNCHANGED <<resource_table, next_rid, fds, next_fd, next_pid, close_count, calls, gate>>

\* The names the caller may pass to op_spawn_kill.
SignalNames == {"SIGTERM", "SIGKILL", "SIGBOGUS"}

\* ops::signal::signal_str_to_int: the number of a known name, 0 for the
\* error of an unknown one
signal_str_to_int(signal) == IF signal = "SIGKILL" THEN 9 ELSE IF signal = "SIGTERM" THEN 15 ELSE 0

\* nix kill(pid, sig): the process must exist, running or not yet reaped
unix_kill(pid) == IF \E c \in DOMAIN children : children[c].pid = pid /\ children[c].proc \in {"running", "exited"} THEN "Ok" ELSE "ESRCH"

\* deprecated::kill on Unix, lines 818-826: target is the pid unix_kill was
\* called on, 0 when it was not called
kill(pid, signal) ==
    LET signo == signal_str_to_int(signal)
    IN  IF signo = 0 THEN [result |-> "InvalidSignal", pid |-> 0, signo |-> 0, target |-> 0]
        ELSE IF unix_kill(pid) = "Ok" THEN [result |-> "Ok", pid |-> pid, signo |-> signo, target |-> pid]
        ELSE [result |-> "ESRCH", pid |-> 0, signo |-> 0, target |-> pid]

\* a mutant of spawn_kill: the pid is read through the RefCell, child.id()
spawn_kill_ThroughRefCell(rid, signal) ==
    IF IsChild(resource_table, rid)
    THEN IF children[rid].borrowed THEN [result |-> "Busy", pid |-> 0, signo |-> 0, target |-> 0] ELSE kill(children[rid].pid, signal)
    ELSE [result |-> "AlreadyTerminated", pid |-> 0, signo |-> 0, target |-> 0]

\* a mutant of spawn_kill: the pid cached at spawn is used without looking
\* the rid up in the table
spawn_kill_NoLookup(rid, signal) ==
    IF rid \in DOMAIN children THEN kill(children[rid].pid, signal)
    ELSE [result |-> "AlreadyTerminated", pid |-> 0, signo |-> 0, target |-> 0]

\* op_spawn_kill, lines 629-633: the result, and the pid and the signal
\* number of the signal sent if one was
spawn_kill(rid, signal) ==
    IF IsChild(resource_table, rid) THEN kill(children[rid].pid, signal)
    ELSE [result |-> "AlreadyTerminated", pid |-> 0, signo |-> 0, target |-> 0]

op_spawn_kill(rid, signal) ==
    LET k == spawn_kill(rid, signal)
    IN  /\ last' = [NoOp EXCEPT !.op = "kill", !.rid = rid, !.signal = signal, !.result = k.result, !.pid = k.pid, !.signo = k.signo, !.target = k.target]
        /\ UNCHANGED calls
        /\ UNCHANGED <<resource_table, next_rid, children, fds, next_fd, next_pid, close_count, gate>>

\* The OS process of a child exits, of itself or by a signal.
ProcExit(rid) ==
    /\ rid \in DOMAIN children
    /\ children[rid].proc = "running"
    /\ children' = [children EXCEPT ![rid].proc = "exited"]
    /\ last' = [NoOp EXCEPT !.op = "proc_exit", !.rid = rid]
    /\ UNCHANGED <<resource_table, next_rid, fds, next_fd, next_pid, close_count, calls, gate>>

\* Forced reclamation of a child entry from outside (the runtime closing
\* the rid): the entry is taken from the table and closed.
ExternalClose(rid) ==
    /\ IsChild(resource_table, rid)
    /\ resource_table' = TableRemove(resource_table, rid)
    /\ close_count' = [close_count EXCEPT ![rid] = @ + 1]
    /\ children' = [children EXCEPT ![rid] = IF Unreferenced(resource_table', rid, @) THEN DropChild(@) ELSE @]
    /\ last' = [NoOp EXCEPT !.op = "close", !.rid = rid, !.result = "Ok"]
    /\ UNCHANGED <<next_rid, fds, next_fd, next_pid, calls, gate>>

--------------------------------------------------------------------------
(* The specifications.                                                     *)

Stdios == {"inherit", "piped", "null"}

RECURSIVE SeqsUpTo(_, _)
SeqsUpTo(S, n) == IF n = 0 THEN {<<>>} ELSE SeqsUpTo(S, n - 1) \cup {Append(q, x) : q \in SeqsUpTo(S, n - 1), x \in S}

LD_PRELOAD == <<"L", "D", "_", "P">>

NoFailure == [pair |-> 0, wrap |-> 0, wrap_closes |-> FALSE]

\* The requests of Spec: all three streams piped, or none.
LifecycleArgs ==
    {Args(FALSE, <<>>, None, StdioMode("piped"), StdioMode("piped"), StdioMode("piped"), <<>>),
     Args(FALSE, <<>>, None, StdioMode("null"), StdioMode("inherit"), StdioMode("null"), <<>>)}

Init ==
    /\ resource_table = InitialTable
    /\ next_rid = 3
    /\ children = <<>>
    /\ fds = {}
    /\ next_fd = 3
    /\ next_pid = 1
    /\ close_count = <<>>
    /\ last = NoOp
    /\ calls = 0
    /\ gate = NoGate

SpawnLifecycle ==
    /\ Cardinality(DOMAIN children) < MaxChildren
    /\ UNCHANGED calls
    /\ \E args \in LifecycleArgs, os \in {"Ok", "SpawnFailed"} : op_spawn_child(args, "run", <<>>, NoFailure, os)

WaitTargets == DOMAIN children \cup {0, next_rid}

Next ==
    \/ SpawnLifecycle
    \/ \E rid \in WaitTargets : op_spawn_wait_begin(rid)
    \/ \E rid \in DOMAIN children : op_spawn_wait_complete(rid)
    \/ \E rid \in DOMAIN children : op_spawn_wait_error(rid)
    \/ \E rid \in WaitTargets, signal \in SignalNames : op_spawn_kill(rid, signal)
    \/ \E rid \in DOMAIN children : ProcExit(rid)
    \/ \E rid \in DOMAIN children : ExternalClose(rid)

Spec == Init /\ [][Next]_vars

\* The rids a child of Spec can have: a spawn adds at most four entries.
ChildRids == 3..(2 + 4 * MaxChildren)

\* SpecLive: the runtime polls a suspended op_spawn_wait again once its
\* process has exited, so the wait returns. Nothing makes a process exit.
SpecLive == Spec /\ \A rid \in ChildRids : WF_vars(op_spawn_wait_complete(rid))

--------------------------------------------------------------------------
(* SpecSpawn: op_spawn_child alone, on requests that vary the permission   *)
(* gate, the standard streams, and the wiring and its failures.            *)

DYLD_X == <<"D", "Y", "L", "D", "_", "X">>
PATH == <<"P">>
Blank == <<" ">>
Value == <<"x">>

\* A request with a control channel on slot 3 and two auxiliary pipes.
WiredArgs(clear_env, env, in, out, err) == Args(clear_env, env, Some(3), in, out, err, <<"piped", "piped">>)

\* The environments SpecSpawn puts to the gate: overrides, clear_env, and
\* the inherited environment.
SpawnEnvs ==
    {[env |-> <<>>, clear_env |-> FALSE, inherited |-> <<>>],
     [env |-> <<<<LD_PRELOAD, Value>>>>, clear_env |-> TRUE, inherited |-> <<>>],
     [env |-> <<<<PATH, Value>>>>, clear_env |-> FALSE, inherited |-> <<<<DYLD_X, Value>>>>],
     [env |-> <<<<DYLD_X, <<>>>>>>, clear_env |-> FALSE, inherited |-> <<<<DYLD_X, Value>>>>]}

\* The number of pipes a request asks for, and the failure plans that can
\* happen while they are opened.
PipesAsked(ipc, extra) == (IF ipc = None \/ ipc[1] < 0 THEN 0 ELSE 1) + Cardinality({i \in 1..Len(extra) : extra[i] = "piped"})

FailurePlans(n) == {NoFailure} \cup {[pair |-> p, wrap |-> 0, wrap_closes |-> FALSE] : p \in 1..n} \cup {[pair |-> 0, wrap |-> w, wrap_closes |-> b] : w \in 1..n, b \in BOOLEAN}

\* Requests that vary the permission state and the environment.
SpawnGated ==
    /\ calls < MaxSpawnCalls
    /\ calls' = calls + 1
    /\ \E perm \in PermStates, e \in SpawnEnvs, os \in {"Ok", "SpawnFailed"} :
        op_spawn_child(WiredArgs(e.clear_env, e.env, StdioMode("piped"), StdioMode("piped"), StdioMode("null")), perm, e.inherited, NoFailure, os)

\* Requests that vary the three standard streams: a mode, a file resource,
\* or a rid the table does not hold.
SpawnStdio ==
    /\ calls < MaxSpawnCalls
    /\ calls' = calls + 1
    /\ \E in \in {StdioMode("inherit"), StdioMode("ipc_for_internal_use"), StdioRid(0), StdioRid(next_rid)},
       out \in {StdioMode("inherit"), StdioMode("piped"), StdioRid(next_rid)},
       err \in {StdioMode("null"), StdioRid(2), StdioRid(next_rid)} :
        op_spawn_child(WiredArgs(FALSE, <<>>, in, out, err), "run", <<>>, NoFailure, "Ok")

\* Requests that vary the control channel, the auxiliary modes, and the
\* failures of the OS.
SpawnWired ==
    /\ calls < MaxSpawnCalls
    /\ calls' = calls + 1
    /\ \E ipc \in {None, Some(-1), Some(3)}, extra \in SeqsUpTo({"piped", "null"}, MaxExtra), in \in {StdioMode("piped"), StdioMode("ipc_for_internal_use")}, os \in {"Ok", "SpawnFailed"} :
        \E plan \in FailurePlans(PipesAsked(IF is_ipc(in) THEN Some(0) ELSE ipc, extra)) :
            op_spawn_child(Args(FALSE, <<>>, ipc, in, StdioMode("inherit"), StdioMode("piped"), extra), "all", <<>>, plan, os)

NextSpawn == SpawnGated \/ SpawnStdio \/ SpawnWired

SpecSpawn == Init /\ [][NextSpawn]_vars

--------------------------------------------------------------------------
(* SpecGate: the permission block alone, on every request within the       *)
(* bounds.                                                                 *)

LD_SPACED == <<" ", "L", "D", "_", "P">>

EnvKeys == {LD_PRELOAD, DYLD_X, LD_SPACED, PATH}
EnvValues == {<<>>, Blank, Value}
EnvPairs == {<<k, v>> : k \in EnvKeys, v \in EnvValues}

\* std::env::vars() of the process: no key twice
InheritedEnvs ==
    {<<>>, <<<<PATH, Value>>>>}
    \cup {<<<<PATH, Value>>, <<k, v>>>> : k \in {LD_PRELOAD, DYLD_X}, v \in EnvValues}
    \cup {<<<<LD_PRELOAD, Blank>>, <<DYLD_X, Value>>>>, <<<<LD_SPACED, Value>>>>}

\* The requests put to the gate.
GateRequests ==
    {[NoGate EXCEPT !.perm = perm, !.clear_env = clear_env, !.env = env, !.inherited = inherited] :
        perm \in PermStates, clear_env \in BOOLEAN, env \in SeqsUpTo(EnvPairs, MaxEnvLen), inherited \in InheritedEnvs}

InitGate ==
    /\ resource_table = InitialTable
    /\ next_rid = 3
    /\ children = <<>>
    /\ fds = {}
    /\ next_fd = 3
    /\ next_pid = 1
    /\ close_count = <<>>
    /\ last = NoOp
    /\ calls = 0
    /\ gate \in GateRequests

\* The permission block is run on the request, and when it lets the request
\* through, the environment of the command is set.
Authorize ==
    /\ gate.result = ""
    /\ LET res == PermissionBlock([clear_env |-> gate.clear_env, env |-> gate.env], gate.perm, gate.inherited)
       IN  gate' = [gate EXCEPT !.result = res.result, !.what = res.what, !.key = res.key,
                                !.child_env = IF res.result = "Ok" THEN command_env([clear_env |-> gate.clear_env, env |-> gate.env], gate.inherited) ELSE <<>>]
    /\ UNCHANGED <<resource_table, next_rid, children, fds, next_fd, next_pid, close_count, last, calls>>

NextGate == Authorize

SpecGate == InitGate /\ [][NextGate]_vars

--------------------------------------------------------------------------
(* SpecSync: op_spawn_sync on requests that vary the standard streams, and *)
(* both spawns on requests that vary the program and the working           *)
(* directory.                                                              *)

Programs == {"deno", "sh"}

\* The working directories of a request.
Cwds == {None} \cup {Some(path) : path \in Paths}

\* Command::spawn fails when the working directory is not a directory, and
\* may fail for any other reason.
SpawnOutcomes(cwd) == IF cwd # None /\ ~is_dir(cwd[1]) THEN {"SpawnFailed"} ELSE {"Ok", "SpawnFailed"}

\* The statuses the processes of SpecSync end with.
SyncStatuses == {[code |-> Some(0), signal |-> None], [code |-> Some(1), signal |-> None], [code |-> None, signal |-> Some(9)], [code |-> None, signal |-> Some(MaxSignal)]}

SyncStdio ==
    /\ calls < MaxSpawnCalls
    /\ calls' = calls + 1
    /\ \E out \in {StdioMode("inherit"), StdioMode("piped"), StdioMode("null"), StdioRid(1), StdioRid(next_rid)},
          err \in {StdioMode("inherit"), StdioMode("piped"), StdioMode("null"), StdioRid(2)},
          ipc \in {None, Some(3)},
          raw \in SyncStatuses :
            op_spawn_sync(Args(FALSE, <<>>, ipc, StdioMode("null"), out, err, <<>>), "run", <<>>, NoFailure, "Ok", raw)

SyncLaunch ==
    /\ calls < MaxSpawnCalls
    /\ calls' = calls + 1
    /\ \E cmd \in Programs, cwd \in Cwds, perm \in {"none", "run"} : \E os \in SpawnOutcomes(cwd) :
            op_spawn_sync(Launch(Args(FALSE, <<>>, None, StdioMode("null"), StdioMode("piped"), StdioMode("piped"), <<"piped">>), cmd, cwd),
                          perm, <<>>, NoFailure, os, [code |-> Some(0), signal |-> None])

ChildLaunch ==
    /\ calls < MaxSpawnCalls
    /\ calls' = calls + 1
    /\ \E cmd \in Programs, cwd \in Cwds : \E os \in SpawnOutcomes(cwd) :
            op_spawn_child(Launch(Args(FALSE, <<>>, None, StdioMode("null"), StdioMode("piped"), StdioMode("piped"), <<"piped">>), cmd, cwd),
                           "run", <<>>, NoFailure, os)

NextSync == SyncStdio \/ SyncLaunch \/ ChildLaunch

SpecSync == Init /\ [][NextSync]_vars

--------------------------------------------------------------------------
(* SpecExit: the translation of a raw status alone, on every raw status    *)
(* within the bounds.                                                      *)

Translate ==
    /\ \E raw \in RawStatuses :
          last' = [NoOp EXCEPT !.op = "try_from", !.raw = Some(raw), !.result = try_from(raw).result, !.status = Some(try_from(raw))]
    /\ UNCHANGED <<resource_table, next_rid, children, fds, next_fd, next_pid, close_count, calls, gate>>

NextExit == Translate

SpecExit == Init /\ [][NextExit]_vars

--------------------------------------------------------------------------
(* The claims on the lifecycle of a child, checked under Spec.             *)

\* The stream rids the spawn returned for child c.
StreamsOf(c) == Range(children[c].stdin_rid) \cup Range(children[c].stdout_rid) \cup Range(children[c].stderr_rid)

\* C1: on every child handle at most one op_spawn_wait is suspended at any
\* time, and a wait begun on a handle of the table while one is suspended on
\* it returns the busy error at once and leaves every child as it was.
C1_OneWaitInFlight ==
    /\ [](\A c \in DOMAIN children : children[c].waiting <= 1)
    /\ [][\A c \in DOMAIN children :
            (last'.op = "wait" /\ last'.rid = c /\ IsChild(resource_table, c) /\ children[c].waiting > 0)
                => (last'.result = "Busy" /\ children' = children)]_vars

C1_Witness == last.op = "wait" /\ last.result = "Busy" /\ last.rid \in DOMAIN children /\ children[last.rid].waiting = 1

\* C2: a kill with a valid signal name on a handle of the table, while a
\* wait is suspended on it, returns Ok (not the busy error) and has sent the
\* signal to the pid stored in the ChildResource at spawn.
C2_KillDuringWait ==
    (last.op = "kill" /\ last.signal \in {"SIGTERM", "SIGKILL"} /\ IsChild(resource_table, last.rid) /\ children[last.rid].waiting > 0)
        => (last.result = "Ok" /\ last.pid = children[last.rid].pid /\ last.signo # 0)

C2_Witness == last.op = "kill" /\ last.result = "Ok" /\ last.rid \in DOMAIN children /\ children[last.rid].waiting = 1 /\ last.pid = children[last.rid].pid

\* C3: once a wait on a handle has completed, the handle is not in the
\* table, every wait begun on it returns the bad-resource error and every
\* kill on it the already-terminated error.
C3_AfterWait ==
    /\ \A c \in DOMAIN children : children[c].waited => c \notin DOMAIN resource_table
    /\ (last.op = "wait" /\ last.rid \in DOMAIN children /\ children[last.rid].waited) => last.result = "BadResource"
    /\ (last.op = "kill" /\ last.rid \in DOMAIN children /\ children[last.rid].waited) => last.result = "AlreadyTerminated"

C3_Witness == last.op = "kill" /\ last.rid \in DOMAIN children /\ children[last.rid].waited /\ last.result = "AlreadyTerminated"

\* C4: a child entry in the table has not been closed, a child entry out of
\* the table has been closed exactly once (by a completed wait or by forced
\* reclamation, also when the reclamation came during a suspended wait),
\* and a rid that has left the table never comes back.
C4_RemovedOnce ==
    /\ [](\A c \in DOMAIN children : close_count[c] = IF c \in DOMAIN resource_table THEN 0 ELSE 1)
    /\ [][\A r \in 0..(next_rid - 1) : r \notin DOMAIN resource_table => r \notin DOMAIN resource_table']_vars

\* a wait completes on a child whose entry was reclaimed while it was suspended
C4_Witness == last.op = "wait_done" /\ last.result = "Ok" /\ last.closes = 0 /\ close_count[last.rid] = 1

\* C5, as the spec states it: after a wait has completed, none of the stream
\* rids the spawn returned for the child is in the table.
C5_StreamsClosed == (last.op = "wait_done" /\ last.result = "Ok") => StreamsOf(last.rid) \cap DOMAIN resource_table = {}

\* C5, amended: a wait that completes takes the entry of the child out of
\* the table and nothing else; the stream resources of the child stay.
C5_OnlyChildEntryRemoved ==
    [][(last'.op = "wait_done" /\ last'.result = "Ok") => resource_table' = TableRemove(resource_table, last'.rid)]_vars

C5_Witness == last.op = "wait_done" /\ last.result = "Ok" /\ StreamsOf(last.rid) # {} /\ StreamsOf(last.rid) \subseteq DOMAIN resource_table

\* C22: whenever op_spawn_kill calls the kill of the OS, it is on the pid
\* cached for a child whose entry is in the table, on which no wait has
\* completed and whose process has not been reaped; a kill on a handle a
\* wait has completed on calls no kill of the OS.
C22_KillOnlyLive ==
    last.op = "kill" =>
        /\ last.target # 0 =>
              /\ IsChild(resource_table, last.rid)
              /\ last.target = children[last.rid].pid
              /\ ~children[last.rid].waited
              /\ children[last.rid].proc \in {"running", "exited"}
        /\ (last.rid \in DOMAIN children /\ children[last.rid].waited) => (last.target = 0 /\ last.result # "Ok")
        /\ \A c \in DOMAIN children : (children[c].waited \/ children[c].proc \in {"reaped", "killed"}) => last.target # children[c].pid

C22_Witness ==
    /\ last.op = "kill" /\ last.signal = "SIGKILL" /\ last.rid \in DOMAIN children
    /\ children[last.rid].waited /\ children[last.rid].proc = "reaped" /\ last.target = 0

\* C23: a kill, whatever it returns, and a wait that returns the busy error
\* leave the table, every child with its cached pid, and the closes as
\* they were, and so does a wait that returns the error of the OS wait; of
\* the operations on a handle, only a wait that held the borrow of the
\* child and whose OS wait returned the status takes an entry out of the
\* table (a reclamation from outside apart), and it takes only the entry of
\* its handle.
C23_OnlyCompletedWaitRemoves ==
    [][/\ (last'.op = "kill" \/ (last'.op = "wait" /\ last'.result = "Busy"))
            => (resource_table' = resource_table /\ children' = children /\ close_count' = close_count)
       /\ (last'.op = "wait_done" /\ last'.result # "Ok") => resource_table' = resource_table
       /\ \A r \in DOMAIN resource_table :
            r \notin DOMAIN resource_table' =>
                \/ last'.op = "close" /\ last'.rid = r
                \/ /\ last'.op = "wait_done" /\ last'.result = "Ok" /\ last'.rid = r
                   /\ children[r].borrowed /\ children[r].waiting > 0 /\ children[r].proc = "exited"]_vars

C23_Witness ==
    /\ last.op = "kill" /\ last.result = "InvalidSignal" /\ IsChild(resource_table, last.rid)
    /\ children[last.rid].waiting = 1 /\ children[last.rid].borrowed /\ close_count[last.rid] = 0

\* A child whose entry has left the table with no wait on it completed.
Destroyed(c) == c \in DOMAIN children /\ c \notin DOMAIN resource_table /\ ~children[c].waited

--------------------------------------------------------------------------
(* The claims on op_spawn_child, checked under SpecSpawn.                  *)

\* C6, as the spec states it: when the wiring of create_command returns an
\* error, no descriptor it opened is still open and no resource it added is
\* still in the table.
C6_NoLeakOnWireError ==
    (last.op = "spawn_child" /\ last.what = "wire") => (last.opened \cap fds = {} /\ last.added \cap DOMAIN resource_table = {})

\* C7: when create_command has succeeded, close_raw_handle has been called
\* exactly once on every handle of the cleanup list by the time
\* op_spawn_child returns, and the handle is closed, whether the OS spawn
\* succeeded or failed.
C7_HandlesClosedOnce ==
    (last.op = "spawn_child" /\ last.create_ok)
        => \A h \in Range(last.to_close) :
              /\ Cardinality({i \in 1..Len(last.closed) : last.closed[i] = h}) = 1
              /\ h \in last.opened
              /\ h \notin fds

C7_Witness == last.op = "spawn_child" /\ last.create_ok /\ last.result = "SpawnFailed" /\ Len(last.to_close) >= 2

\* C10: a call the permission block or the resolution of the standard
\* streams refuses leaves the table and the open descriptors as they were.
C10_RefusalAllocatesNothing ==
    [][(last'.op = "spawn_child" /\ last'.what \in {"run", "env", "stdio"})
          => (resource_table' = resource_table /\ next_rid' = next_rid /\ fds' = fds /\ next_fd' = next_fd)]_vars

C10_Witness == last.op = "spawn_child" /\ last.what = "stdio" /\ last.result = "BadResource" /\ DOMAIN resource_table # DOMAIN InitialTable

\* The pairs of fds_to_dup that come from extra_stdio: all but the pair of
\* the control channel, which is the first when there is one.
ExtraPairs == {j \in 1..Len(last.fds_to_dup) : j > Len(last.ipc_rid)}

\* C11: in the result of a spawn, extra_pipe_rids has one entry for every
\* element of extra_stdio, in its order; the entry of a mode that is not
\* Piped is absent, an entry that is present is a pipe resource this call
\* added, and its child end is duplicated onto descriptor i + 3 of the
\* child (i counted from 0); no other descriptor is assigned for
\* extra_stdio.
C11_ExtraPositional ==
    (last.op = "spawn_child" /\ last.result = "Ok") =>
        /\ Len(last.extra_pipe_rids) = Len(last.args.extra_stdio)
        /\ \A n \in 1..Len(last.args.extra_stdio) :
              /\ last.args.extra_stdio[n] # "piped" => last.extra_pipe_rids[n] = None
              /\ last.extra_pipe_rids[n] # None =>
                    /\ last.args.extra_stdio[n] = "piped"
                    /\ last.extra_pipe_rids[n][1] \in last.added
                    /\ resource_table[last.extra_pipe_rids[n][1]].kind = "bipipe"
                    /\ \E j \in ExtraPairs : last.fds_to_dup[j] = <<resource_table[last.extra_pipe_rids[n][1]].fd + 1, (n - 1) + 3>>
              /\ last.args.extra_stdio[n] = "piped" => Cardinality({j \in ExtraPairs : last.fds_to_dup[j][2] = (n - 1) + 3}) = 1
        /\ \A j \in ExtraPairs : \E n \in 1..Len(last.args.extra_stdio) : last.args.extra_stdio[n] = "piped" /\ last.fds_to_dup[j][2] = (n - 1) + 3

C11_Witness ==
    /\ last.op = "spawn_child" /\ last.result = "Ok"
    /\ last.args.extra_stdio = <<"null", "piped">>
    /\ last.extra_pipe_rids[1] = None /\ last.extra_pipe_rids[2] # None
    /\ \E j \in ExtraPairs : last.fds_to_dup[j][2] = 4

\* C17, as the spec states it: after the pre-exec hook of a spawn whose
\* pairs have distinct destinations, every destination is open in the child
\* and refers to the child end of the pipe opened for it, whatever the
\* numbers of the source descriptors are.
C17_DestinationsWired ==
    (/\ last.op = "spawn_child" /\ last.result = "Ok"
     /\ \A j, k \in 1..Len(last.fds_to_dup) : last.fds_to_dup[j][2] = last.fds_to_dup[k][2] => j = k)
        => \A j \in 1..Len(last.fds_to_dup) :
              /\ last.fds_to_dup[j][2] \in DOMAIN last.child_fds
              /\ last.child_fds[last.fds_to_dup[j][2]] = last.fds_to_dup[j][1]

\* C18: a spawn whose stdin is the control-channel mode has a control
\* channel whatever the ipc of the request is: its child end is duplicated
\* onto descriptor 0, which refers to it after the pre-exec hook,
\* NODE_CHANNEL_FD is 0, command.stdin is not called, and the Child
\* returned has no stdin rid.
C18_StdinIsChannel ==
    (last.op = "spawn_child" /\ last.result = "Ok" /\ last.args.stdin.tag = "Stdio" /\ last.args.stdin.stdio = "ipc_for_internal_use")
        => /\ last.ipc_rid # None
           /\ resource_table[last.ipc_rid[1]].kind = "ipc"
           /\ last.fds_to_dup # <<>>
           /\ last.fds_to_dup[1] = <<resource_table[last.ipc_rid[1]].fd + 1, 0>>
           /\ \A j \in 2..Len(last.fds_to_dup) : last.fds_to_dup[j][2] # 0
           /\ last.child_fds[0] = last.fds_to_dup[1][1]
           /\ last.channel_env = Some(0)
           /\ ~last.stdin_configured
           /\ children[last.rid].stdin_rid = None

C18_Witness ==
    /\ last.op = "spawn_child" /\ last.result = "Ok" /\ last.args.stdin = StdioMode("ipc_for_internal_use")
    /\ last.args.ipc = Some(3) /\ last.channel_env = Some(0) /\ last.child_fds[0] = last.fds_to_dup[1][1]

\* C20: when op_spawn_child returns the error of a
\* failed OS spawn, no resource the call added is in the table: the
\* control-channel resource and the auxiliary pipe resources of the
\* request are not left registered.
C20_TableRestoredOnSpawnFailure ==
    (last.op = "spawn_child" /\ last.result = "SpawnFailed") => last.added \cap DOMAIN resource_table = {}

--------------------------------------------------------------------------
(* The claims on the permission gate, checked under SpecGate. They are     *)
(* stated on the characters of the keys and values, not through the       *)
(* operators of the gate.                                                  *)

NonBlank(v) == \E i \in 1..Len(v) : v[i] \notin WhiteSpace

\* A dangerous key as the spec words it: the name starts with LD_ or DYLD_.
NamedDangerous(k) == (Len(k) >= 3 /\ k[1] = "L" /\ k[2] = "D" /\ k[3] = "_") \/ (Len(k) >= 5 /\ k[1] = "D" /\ k[2] = "Y" /\ k[3] = "L" /\ k[4] = "D" /\ k[5] = "_")

\* A dangerous key as the code takes it: the name without the white space
\* around it starts with LD_ or DYLD_.
Unpadded(k) == IF \E i \in 1..Len(k) : k[i] \notin WhiteSpace THEN SubSeq(k, CHOOSE i \in 1..Len(k) : k[i] \notin WhiteSpace /\ \A j \in 1..(i - 1) : k[j] \in WhiteSpace, Len(k)) ELSE <<>>
Dangerous(k) == NamedDangerous(Unpadded(k))

\* The override entries and the inherited entries that count.
DeclaredNonEmpty == {i \in 1..Len(gate.env) : NamedDangerous(gate.env[i][1]) /\ gate.env[i][2] # <<>>}
DeclaredNonBlank == {i \in 1..Len(gate.env) : Dangerous(gate.env[i][1]) /\ NonBlank(gate.env[i][2])}
FirstOverride(k) == {i \in 1..Len(gate.env) : gate.env[i][1] = k /\ \A j \in 1..(i - 1) : gate.env[j][1] # k}
InheritedPending == {j \in 1..Len(gate.inherited) : Dangerous(gate.inherited[j][1]) /\ NonBlank(gate.inherited[j][2]) /\ \A i \in FirstOverride(gate.inherited[j][1]) : NonBlank(gate.env[i][2])}
RunOnly == gate.result # "" /\ gate.perm = "run"

\* C8, as the spec states it: with run permission for the program only, an
\* override of a dangerous key with a non-empty value is denied with an
\* error that names such a key, clear_env or not; and overrides whose
\* dangerous keys all have the empty value are not denied for them.
C8_DeclaredNonEmptyDenied ==
    RunOnly =>
        /\ DeclaredNonEmpty # {} => (gate.result = "PermissionDenied" /\ \E i \in DeclaredNonEmpty : gate.key = Some(gate.env[i][1]))
        /\ (DeclaredNonEmpty = {} /\ (gate.clear_env \/ gate.inherited = <<>>)) => gate.result = "Ok"

\* C8, amended: non-empty is non-blank (not empty once the white space
\* around it is trimmed), the name of a key is taken trimmed, and the key
\* named is the first such override.
C8_DeclaredNonBlankDenied ==
    RunOnly =>
        /\ DeclaredNonBlank # {} =>
              (gate.result = "PermissionDenied" /\ gate.what = "env"
               /\ \E i \in DeclaredNonBlank : gate.key = Some(gate.env[i][1]) /\ \A j \in DeclaredNonBlank : i <= j)
        /\ (DeclaredNonBlank = {} /\ (gate.clear_env \/ InheritedPending = {})) => gate.result = "Ok"

C8_Witness ==
    RunOnly /\ gate.clear_env /\ gate.result = "PermissionDenied" /\ gate.env = <<<<LD_PRELOAD, Blank>>, <<DYLD_X, Value>>>> /\ gate.key = Some(DYLD_X)

C19_NoDangerousEnv ==
    (gate.result = "Ok" /\ gate.perm # "all")
        => \A k \in DOMAIN gate.child_env : NamedDangerous(k) => ~NonBlank(gate.child_env[k])

C19_Witness ==
    /\ RunOnly /\ gate.result = "Ok" /\ ~gate.clear_env
    /\ gate.inherited = <<<<PATH, Value>>, <<LD_PRELOAD, Value>>>>
    /\ gate.env = <<<<LD_PRELOAD, <<>>>>, <<LD_PRELOAD, Blank>>>>
    /\ gate.child_env = [k \in {PATH, LD_PRELOAD} |-> IF k = PATH THEN Value ELSE Blank]

--------------------------------------------------------------------------
(* The claims on the translation of the exit status, checked under         *)
(* SpecExit.                                                               *)

\* C12: a raw status with an exit code in 0..255 and no signal is
\* translated to Ok with success exactly when the code is 0, the same
\* code, and no signal name.
C12_ExitCode ==
    (last.op = "try_from" /\ last.raw[1].signal = None /\ last.raw[1].code # None /\ last.raw[1].code[1] \in 0..255)
        => /\ last.result = "Ok"
           /\ last.status[1].success = (last.raw[1].code[1] = 0)
           /\ last.status[1].code = last.raw[1].code[1]
           /\ last.status[1].signal = None

C12_Witness == last.op = "try_from" /\ last.raw[1].code = Some(255) /\ last.result = "Ok" /\ ~last.status[1].success /\ last.status[1].code = 255

\* C13: a raw status with a termination signal never reports success; when
\* the signal is one the table of signal names has, the translation is Ok
\* with code 128 + n and the name the table has for n, which is the name
\* op_spawn_kill takes for n where it knows the name.
C13_Signalled ==
    (last.op = "try_from" /\ last.raw[1].signal # None)
        => /\ ~last.status[1].success
           /\ last.raw[1].signal[1] \in 1..Len(SignalTable) =>
                 /\ last.result = "Ok"
                 /\ last.status[1].code = 128 + last.raw[1].signal[1]
                 /\ last.status[1].signal = Some(SignalTable[last.raw[1].signal[1]])
                 /\ signal_str_to_int(last.status[1].signal[1]) \in {0, last.raw[1].signal[1]}

C13_Witness == last.op = "try_from" /\ last.raw[1].signal = Some(9) /\ last.status[1] = Status("Ok", FALSE, 137, Some("SIGKILL"))

--------------------------------------------------------------------------
(* The claims on op_spawn_sync and on the errors of a failed spawn,        *)
(* checked under SpecSync.                                                 *)

\* C14: op_spawn_sync returns a stdout buffer exactly when the stdout of
\* the request is the mode Piped, and a stderr buffer exactly when its
\* stderr is the mode Piped, each whatever the other is; a call that
\* returns an error returns no buffer.
C14_BuffersIffPiped ==
    last.op = "spawn_sync" =>
        /\ last.result = "Ok" =>
              /\ last.stdout # None <=> (last.args.stdout.tag = "Stdio" /\ last.args.stdout.stdio = "piped")
              /\ last.stderr # None <=> (last.args.stderr.tag = "Stdio" /\ last.args.stderr.stdio = "piped")
        /\ last.result # "Ok" => (last.stdout = None /\ last.stderr = None)

C14_Witness == last.op = "spawn_sync" /\ last.result = "Ok" /\ last.args.stdout = StdioRid(1) /\ last.stdout = None /\ last.stderr # None

\* C15, as the spec states it: a spawn that fails on a request with a
\* working directory returns an error that names the program and says
\* 'No such cwd' when the path does not exist, 'cwd is not a directory'
\* when it exists and is no directory, and 'Failed to spawn' alone
\* otherwise.
C15_CwdErrorKinds ==
    (last.op \in {"spawn_child", "spawn_sync"} /\ last.result = "SpawnFailed" /\ last.args.cwd # None)
        => /\ last.message.program = last.args.cmd
           /\ FileSystem[last.args.cwd[1]] = "absent" => (last.message.text = "No such cwd" /\ last.message.cwd = last.args.cwd)
           /\ FileSystem[last.args.cwd[1]] = "file" => (last.message.text = "cwd is not a directory" /\ last.message.cwd = last.args.cwd)
           /\ FileSystem[last.args.cwd[1]] = "dir" => last.message.text = "Failed to spawn"

\* C21: when op_spawn_sync has returned, no resource it added is in the
\* table and no pipe descriptor it opened is open in the parent, whatever
\* the control channel and the auxiliary modes of the request are.
C21_SyncLeavesNothing ==
    last.op = "spawn_sync" => (last.added \cap DOMAIN resource_table = {} /\ last.opened \cap fds = {})

====
